---- MODULE Spec2Model ----
(***************************************************************************)
(* Model of nonebot-plugin-whoasked: the MessageRecorder of                *)
(* data_manager.py (per-recipient index, retention, persistence, the       *)
(* asyncio lock around record_message) and the query path of __init__.py   *)
(* (handle_who_at_me, process_query).                                      *)
(*                                                                         *)
(* Scheduling: one asyncio event loop.  A coroutine runs without           *)
(* interruption until it reaches an await that really suspends; `running`  *)
(* names the coroutine that is in the middle of synchronous code.  The     *)
(* save of _save_messages_async runs in an executor thread.                *)
(* The field sender_name of an event is display text only and is left out. *)
(***************************************************************************)
EXTENDS Integers, Sequences, FiniteSets, TLC

\* ------------------------------------------------------------------ bounds
\* who_at_me_max_messages of the plugin configuration, read at
\* data_manager.py:130
MaxMessages == 2
\* who_at_me_storage_days, read at data_manager.py:120.
StorageDays == 1
\* the wall clock advances by at most MaxDays days and MaxSecs seconds
MaxDays == 1
MaxSecs == 1
\* number of inbound messages handed to the record handler in one run
MaxRecords == 2

\* data_manager.py:120
SecondsPerDay == 86400

Procs == {1, 2}
Users == {"a", "b"}
Groups == {"g1", "g2"}
\* Python's None
None == "None"

\* --------------------------------------------------------- inbound messages
Text == [type |-> "text", qq |-> ""]
At(u) == [type |-> "at", qq |-> u]

\* a MessageEvent as record_message reads it: event.get_message(), the
\* sender of event.reply (None without a reply), event.get_user_id() and
\* event.group_id (None for a private message, line 64)
MessageEvent(message, reply, user_id, group_id) ==
    [message |-> message, reply |-> reply, user_id |-> user_id,
     group_id |-> group_id]

\* the inbound messages the record handler is fed with
Inbound ==
    { MessageEvent(<<>>, None, "b", "g1"),
      MessageEvent(<<Text>>, None, "b", "g1"),
      MessageEvent(<<At("a")>>, None, "b", "g1"),
      MessageEvent(<<At("a")>>, None, "b", "g2"),
      MessageEvent(<<At("a"), At("b")>>, None, "b", "g1"),
      MessageEvent(<<At("a"), At("a")>>, None, "b", "g1"),
      MessageEvent(<<At(""), At("a")>>, None, "b", "g1"),
      MessageEvent(<<Text>>, "a", "b", "g1"),
      MessageEvent(<<At("a")>>, "a", "b", "g1"),
      MessageEvent(<<At("b")>>, None, "a", "g1"),
      MessageEvent(<<At("a")>>, None, "b", None) }

NoEvent == [message |-> <<>>, reply |-> None, user_id |-> None, group_id |-> None]

\* a message_info dict not built yet
NoInfo ==
    [time |-> -1, user_id |-> None, raw_message |-> <<>>, at_list |-> <<>>,
     is_reply |-> FALSE, reply_user_id |-> None, group_id |-> None]

\* ------------------------------------------------------------ pure helpers
EmptyIndex == [u \in {} |-> <<>>]

Range(s) == {s[i] : i \in 1..Len(s)}

\* mutant of ExtractAtList: the test of line 70 is left out, an empty
\* target is taken like any other
ExtractAtListAll(message) ==
    LET ats == SelectSeq(message, LAMBDA seg : seg.type = "at")
    IN [i \in 1..Len(ats) |-> ats[i].qq]

\* lines 67-71: the targets of the "at" segments, empty targets skipped
RECURSIVE ExtractAtList(_)
ExtractAtList(message) ==
    IF message = <<>> THEN <<>>
    ELSE LET seg == Head(message)
             rest == ExtractAtList(Tail(message))
         IN IF seg.type = "at" /\ seg.qq # "" THEN <<seg.qq>> \o rest ELSE rest

\* mutant of SetDefaultAppend: the list of the recipient is replaced by a
\* list of the new entry alone
SetDefaultReplace(m, k, info) ==
    [u \in DOMAIN m \cup {k} |-> IF u = k THEN <<info>> ELSE m[u]]

\* self.messages.setdefault(k, []).append(info)
SetDefaultAppend(m, k, info) ==
    IF k \in DOMAIN m
    THEN [m EXCEPT ![k] = Append(@, info)]
    ELSE [u \in DOMAIN m \cup {k} |-> IF u = k THEN <<info>> ELSE m[u]]

\* line 120
ExpireTime(now) == now - StorageDays * SecondsPerDay

\* mutant of Keeps: a message exactly at the expiry time stays
KeepsBoundary(msg, expire_time) == msg.time >= expire_time

\* line 122: the test a message must pass to stay
Keeps(msg, expire_time) == msg.time > expire_time

\* lines 119-124
CleanOldMessages(m, now) ==
    LET kept(u) == SelectSeq(m[u], LAMBDA msg : Keeps(msg, ExpireTime(now)))
    IN [u \in {k \in DOMAIN m : kept(k) # <<>>} |-> kept(u)]

\* sorted(..., key=time, reverse=True): stable, newest first
RECURSIVE InsertDesc(_, _)
InsertDesc(sorted, msg) ==
    IF sorted = <<>> THEN <<msg>>
    ELSE IF Head(sorted).time >= msg.time
         THEN <<Head(sorted)>> \o InsertDesc(Tail(sorted), msg)
         ELSE <<msg>> \o sorted

RECURSIVE SortedDesc(_)
SortedDesc(s) ==
    IF s = <<>> THEN <<>>
    ELSE InsertDesc(SortedDesc(SubSeq(s, 1, Len(s) - 1)), s[Len(s)])

Truncate(s, n) == SubSeq(s, 1, IF Len(s) < n THEN Len(s) ELSE n)

\* mutant of GetAtMessages: the list is cut without being sorted
GetAtMessagesUnsorted(m, user_id) ==
    IF user_id \notin DOMAIN m THEN <<>>
    ELSE Truncate(m[user_id], MaxMessages)

\* lines 126-132
GetAtMessages(m, user_id) ==
    IF user_id \notin DOMAIN m THEN <<>>
    ELSE Truncate(SortedDesc(m[user_id]), MaxMessages)

\* lines 121-123 of __init__.py
Matches(msg, user_id, current_group_id) ==
    /\ msg.group_id = current_group_id
    /\ \/ user_id \in Range(msg.at_list)
       \/ (msg.is_reply /\ msg.reply_user_id = user_id)

\* lines 119-127 of __init__.py
FilteredMessages(m, user_id, current_group_id) ==
    SelectSeq(GetAtMessages(m, user_id),
              LAMBDA msg : Matches(msg, user_id, current_group_id))

\* ------------------------------------------------------------ persistence
\* json.dump of one message_info: None becomes null, a bool true/false
JsonDumpMsg(msg) ==
    [time |-> msg.time, user_id |-> msg.user_id, raw_message |-> msg.raw_message,
     at_list |-> msg.at_list,
     is_reply |-> IF msg.is_reply THEN "true" ELSE "false",
     reply_user_id |-> IF msg.reply_user_id = None THEN "null" ELSE msg.reply_user_id,
     group_id |-> IF msg.group_id = None THEN "null" ELSE msg.group_id]

\* mutant of JsonDump: only the newest entry of each recipient is written
JsonDumpLatest(m) ==
    [u \in DOMAIN m |-> <<JsonDumpMsg(m[u][Len(m[u])])>>]

\* line 47: json.dump(self.messages, f)
JsonDump(m) ==
    [u \in DOMAIN m |-> [i \in 1..Len(m[u]) |-> JsonDumpMsg(m[u][i])]]

\* mutant of JsonLoadMsg: a null is read back as the text "null"
JsonLoadMsgKeepsNull(obj) ==
    [time |-> obj.time, user_id |-> obj.user_id, raw_message |-> obj.raw_message,
     at_list |-> obj.at_list,
     is_reply |-> (obj.is_reply = "true"),
     reply_user_id |-> obj.reply_user_id,
     group_id |-> obj.group_id]

\* json.load of one object
JsonLoadMsg(obj) ==
    [time |-> obj.time, user_id |-> obj.user_id, raw_message |-> obj.raw_message,
     at_list |-> obj.at_list,
     is_reply |-> (obj.is_reply = "true"),
     reply_user_id |-> IF obj.reply_user_id = "null" THEN None ELSE obj.reply_user_id,
     group_id |-> IF obj.group_id = "null" THEN None ELSE obj.group_id]

\* line 36: json.load(f)
JsonLoad(doc) ==
    [u \in DOMAIN doc |-> [i \in 1..Len(doc[u]) |-> JsonLoadMsg(doc[u][i])]]

NoFile == [kind |-> "nofile", data |-> EmptyIndex]
Corrupt == [kind |-> "corrupt", data |-> EmptyIndex]
Document(m) == [kind |-> "doc", data |-> JsonDump(m)]

\* lines 29-41
LoadMessages(f) ==
    IF f.kind = "doc" THEN JsonLoad(f.data) ELSE EmptyIndex

\* ------------------------------------------------------------------ state
VARIABLES
    message_recorder,   \* "None" before init_message_recorder, then "ready"
    messages,           \* MessageRecorder.messages: recipient -> list of dicts
    file,               \* message_records.json
    lock,               \* MessageRecorder._lock: 0 when free, else its holder
    pc,                 \* where each record handler stands
    frame,              \* the locals of each record_message invocation
    running,            \* the coroutine in the middle of synchronous code, or 0
    clock,              \* int(time.time())
    nrec,               \* inbound messages handled so far
    qout                \* what the query handler that just ran told its user

vars == <<message_recorder, messages, file, lock, pc, frame, running, clock,
          nrec, qout>>

\* the locals of one invocation; before, file_before, pre_clean and
\* clean_now are history fields: the index and the file when the invocation
\* started, the index the last prune was given and the time it read
NoFrame ==
    [ev |-> NoEvent, at_list |-> <<>>, is_reply |-> FALSE, reply_user_id |-> None,
     reply_message_info |-> NoInfo, message_info |-> NoInfo,
     call_at |-> <<>>, call_reply |-> None, call_info |-> NoInfo, ret |-> "none",
     before |-> EmptyIndex, file_before |-> NoFile, pre_clean |-> EmptyIndex,
     clean_now |-> -1, saved |-> "none"]

NoQuery == [kind |-> "none", user_id |-> None, group_id |-> None, forward |-> <<>>]

\* mutant of Suspends: the coroutine also yields before the prune
SuspendsBeforeClean(label) == label \in {"save", "rfu_clean"}

\* the awaits of record_message that suspend the coroutine: only the save
\* of line 105 (lines 54-104 hold no await)
Suspends(label) == label = "save"

\* who holds the event loop after a step that leaves p at `label`
After(p, label) == IF Suspends(label) THEN 0 ELSE p

\* p may take its step at `label`: it is the running coroutine, or it is
\* resumed at a suspension point while no coroutine runs
Sched(p, label) == running = (IF Suspends(label) THEN 0 ELSE p)

Init ==
    /\ message_recorder = None
    /\ messages = EmptyIndex
    /\ file \in {NoFile, Corrupt}
    /\ lock = 0
    /\ pc = [p \in Procs |-> "idle"]
    /\ frame = [p \in Procs |-> NoFrame]
    /\ running = 0
    /\ clock = 0
    /\ nrec = 0
    /\ qout = NoQuery

\* __init__.py 45-56 and data_manager.py 16-27: the startup hook
Startup ==
    /\ message_recorder = None
    /\ running = 0
    /\ message_recorder' = "ready"
    /\ messages' = LoadMessages(file)
    /\ UNCHANGED <<file, lock, pc, frame, running, clock, nrec>>
    /\ qout' = NoQuery

\* time.time() moves on: by a second at any point, by a day while no
\* coroutine is in the middle of its synchronous code (lines 54-104 run in
\* far less than the retention window)
Tick ==
    /\ \/ /\ clock % SecondsPerDay < MaxSecs
          /\ clock' = clock + 1
       \/ /\ clock \div SecondsPerDay < MaxDays
          /\ running = 0
          /\ clock' = clock + SecondsPerDay
    /\ UNCHANGED <<message_recorder, messages, file, lock, pc, frame, running, nrec>>
    /\ qout' = NoQuery

\* __init__.py 82-87 and data_manager.py 52: the handler is started for an
\* inbound message and reaches `async with self._lock`
Receive(p) ==
    /\ pc[p] = "idle"
    /\ \A q \in Procs : q < p => pc[q] # "idle"
    /\ running = 0
    /\ nrec < MaxRecords
    /\ nrec' = nrec + 1
    /\ \/ \* message_recorder is None: AttributeError, caught at line 86
          /\ message_recorder = None
          /\ UNCHANGED <<lock, pc, running>>
       \/ \* the lock is free and nobody waits for it: acquired at once
          /\ message_recorder # None
          /\ lock = 0
          /\ \A q \in Procs : pc[q] # "lock"
          /\ lock' = p
          /\ pc' = [pc EXCEPT ![p] = "extract"]
          /\ running' = After(p, "extract")
       \/ \* otherwise the coroutine waits
          /\ message_recorder # None
          /\ (lock # 0 \/ \E q \in Procs : pc[q] = "lock")
          /\ pc' = [pc EXCEPT ![p] = "lock"]
          /\ UNCHANGED <<lock, running>>
    /\ UNCHANGED <<message_recorder, messages, file, frame, clock>>
    /\ qout' = NoQuery

\* mutant of LockFree: a waiting coroutine enters although the lock is held
LockBarging(p) == TRUE

\* asyncio.Lock: a waiting coroutine is let in only once the lock is free
LockFree(p) == lock = 0

Acquire(p) ==
    /\ pc[p] = "lock"
    /\ running = 0
    /\ LockFree(p)
    /\ lock' = p
    /\ pc' = [pc EXCEPT ![p] = "extract"]
    /\ running' = After(p, "extract")
    /\ UNCHANGED <<message_recorder, messages, file, frame, clock, nrec>>
    /\ qout' = NoQuery

\* lines 54-71: the message is read; an empty one returns at line 61
Extract(p) ==
    /\ pc[p] = "extract"
    /\ Sched(p, "extract")
    /\ \E ev \in Inbound :
          \/ /\ ev.message = <<>>
             /\ pc' = [pc EXCEPT ![p] = "idle"]
             /\ lock' = 0
             /\ running' = 0
             /\ frame' = [frame EXCEPT ![p] = NoFrame]
          \/ /\ ev.message # <<>>
             /\ pc' = [pc EXCEPT ![p] = "reply"]
             /\ running' = After(p, "reply")
             /\ frame' = [frame EXCEPT ![p] =
                    [NoFrame EXCEPT !.ev = ev,
                                    !.before = messages,
                                    !.file_before = file,
                                    !.at_list = ExtractAtList(ev.message)]]
             /\ UNCHANGED lock
    /\ UNCHANGED <<message_recorder, messages, file, clock, nrec>>
    /\ qout' = NoQuery

\* lines 80-89
ReplyMessageInfo(ev, now) ==
    [time |-> now, user_id |-> ev.reply, raw_message |-> <<Text>>,
     at_list |-> <<>>, is_reply |-> FALSE, reply_user_id |-> None,
     group_id |-> ev.group_id]

\* mutant of ReplyCallReply: the call at line 90 passes the replied-to user
ReplyCallReplyUser(f) == f.reply_user_id

\* the arguments of the call at line 90: self._record_for_users([], None, ...)
ReplyCallAt(f) == <<>>
ReplyCallReply(f) == None

\* lines 74-90
Reply(p) ==
    /\ pc[p] = "reply"
    /\ Sched(p, "reply")
    /\ \/ /\ frame[p].ev.reply = None
          /\ pc' = [pc EXCEPT ![p] = "build"]
          /\ running' = After(p, "build")
          /\ UNCHANGED frame
       \/ /\ frame[p].ev.reply # None
          /\ LET f1 == [frame[p] EXCEPT
                           !.is_reply = TRUE,
                           !.reply_user_id = frame[p].ev.reply,
                           !.reply_message_info = ReplyMessageInfo(frame[p].ev, clock)]
             IN frame' = [frame EXCEPT ![p] =
                    [f1 EXCEPT !.call_at = ReplyCallAt(f1),
                               !.call_reply = ReplyCallReply(f1),
                               !.call_info = f1.reply_message_info,
                               !.ret = "build"]]
          /\ pc' = [pc EXCEPT ![p] = "rfu_at"]
          /\ running' = After(p, "rfu_at")
    /\ UNCHANGED <<message_recorder, messages, file, lock, clock, nrec>>
    /\ qout' = NoQuery

\* lines 93-102
MessageInfo(f, now) ==
    [time |-> now, user_id |-> f.ev.user_id, raw_message |-> f.ev.message,
     at_list |-> f.at_list, is_reply |-> f.is_reply,
     reply_user_id |-> f.reply_user_id, group_id |-> f.ev.group_id]

\* lines 93-104: message_info is built and _record_for_users is called
Build(p) ==
    /\ pc[p] = "build"
    /\ Sched(p, "build")
    /\ LET f1 == [frame[p] EXCEPT !.message_info = MessageInfo(frame[p], clock)]
       IN frame' = [frame EXCEPT ![p] =
              [f1 EXCEPT !.call_at = f1.at_list,
                         !.call_reply = f1.reply_user_id,
                         !.call_info = f1.message_info,
                         !.ret = "save"]]
    /\ pc' = [pc EXCEPT ![p] = "rfu_at"]
    /\ running' = After(p, "rfu_at")
    /\ UNCHANGED <<message_recorder, messages, file, lock, clock, nrec>>
    /\ qout' = NoQuery

\* lines 111-112: one turn of the loop over at_list, or its end
RecordAt(p) ==
    /\ pc[p] = "rfu_at"
    /\ Sched(p, "rfu_at")
    /\ \/ /\ frame[p].call_at # <<>>
          /\ messages' = SetDefaultAppend(messages, Head(frame[p].call_at),
                                          frame[p].call_info)
          /\ frame' = [frame EXCEPT ![p].call_at = Tail(@)]
          /\ running' = After(p, "rfu_at")
          /\ UNCHANGED pc
       \/ /\ frame[p].call_at = <<>>
          /\ pc' = [pc EXCEPT ![p] = "rfu_reply"]
          /\ running' = After(p, "rfu_reply")
          /\ UNCHANGED <<messages, frame>>
    /\ UNCHANGED <<message_recorder, file, lock, clock, nrec>>
    /\ qout' = NoQuery

\* lines 114-115
RecordReply(p) ==
    /\ pc[p] = "rfu_reply"
    /\ Sched(p, "rfu_reply")
    /\ \/ /\ frame[p].call_reply # None
          /\ messages' = SetDefaultAppend(messages, frame[p].call_reply,
                                          frame[p].call_info)
       \/ /\ frame[p].call_reply = None
          /\ UNCHANGED messages
    /\ pc' = [pc EXCEPT ![p] = "rfu_clean"]
    /\ running' = After(p, "rfu_clean")
    /\ UNCHANGED <<message_recorder, file, lock, frame, clock, nrec>>
    /\ qout' = NoQuery

\* line 117 with lines 119-124, then the return to the caller
RecordClean(p) ==
    /\ pc[p] = "rfu_clean"
    /\ Sched(p, "rfu_clean")
    /\ messages' = CleanOldMessages(messages, clock)
    /\ frame' = [frame EXCEPT ![p].pre_clean = messages, ![p].clean_now = clock]
    /\ pc' = [pc EXCEPT ![p] = frame[p].ret]
    /\ running' = After(p, frame[p].ret)
    /\ UNCHANGED <<message_recorder, file, lock, clock, nrec>>
    /\ qout' = NoQuery

\* lines 43-49 in the executor thread: the document is written, or the
\* write fails (nothing written, or a torn file)
SaveMessages(p) ==
    /\ pc[p] = "save"
    /\ frame[p].saved = "none"
    /\ \/ /\ file' = Document(messages)
          /\ frame' = [frame EXCEPT ![p].saved = "ok"]
       \/ /\ file' \in {file, Corrupt}
          /\ frame' = [frame EXCEPT ![p].saved = "failed"]
    /\ UNCHANGED <<message_recorder, messages, lock, pc, running, clock, nrec>>
    /\ qout' = NoQuery

\* mutant of Resume: after a failed save the index is put back to what it
\* was before the message
ResumeRollback(p) ==
    /\ pc[p] = "save"
    /\ frame[p].saved # "none"
    /\ Sched(p, "save")
    /\ pc' = [pc EXCEPT ![p] = "idle"]
    /\ lock' = 0
    /\ running' = 0
    /\ frame' = [frame EXCEPT ![p] = NoFrame]
    /\ messages' = IF frame[p].saved = "failed" THEN frame[p].before ELSE messages
    /\ UNCHANGED <<message_recorder, file, clock, nrec>>
    /\ qout' = NoQuery

\* lines 105-108 and 137: the await returns (a failure was logged at line
\* 49 or 107), the lock is released
Resume(p) ==
    /\ pc[p] = "save"
    /\ frame[p].saved # "none"
    /\ Sched(p, "save")
    /\ pc' = [pc EXCEPT ![p] = "idle"]
    /\ lock' = 0
    /\ running' = 0
    /\ frame' = [frame EXCEPT ![p] = NoFrame]
    /\ UNCHANGED <<message_recorder, messages, file, clock, nrec>>
    /\ qout' = NoQuery

\* mutant of QueryOutcome: no test of message_recorder, a missing recorder
\* reads as an empty index
QueryOutcomeUnchecked(user_id, current_group_id) ==
    IF message_recorder = None \/ GetAtMessages(messages, user_id) = <<>>
    THEN [kind |-> "nobody_asked", user_id |-> user_id,
          group_id |-> current_group_id, forward |-> <<>>]
    ELSE IF FilteredMessages(messages, user_id, current_group_id) = <<>>
    THEN [kind |-> "nobody_asked_here", user_id |-> user_id,
          group_id |-> current_group_id, forward |-> <<>>]
    ELSE [kind |-> "forward", user_id |-> user_id, group_id |-> current_group_id,
          forward |-> FilteredMessages(messages, user_id, current_group_id)]

\* __init__.py 93-130: the query handler, up to what it tells the user:
\* "not_initialized" is the text of line 96, "nobody_asked" that of line
\* 115, "nobody_asked_here" that of line 129, "forward" the call of line 155
QueryOutcome(user_id, current_group_id) ==
    IF message_recorder = None
    THEN [kind |-> "not_initialized", user_id |-> user_id,
          group_id |-> current_group_id, forward |-> <<>>]
    ELSE IF GetAtMessages(messages, user_id) = <<>>
    THEN [kind |-> "nobody_asked", user_id |-> user_id,
          group_id |-> current_group_id, forward |-> <<>>]
    ELSE IF FilteredMessages(messages, user_id, current_group_id) = <<>>
    THEN [kind |-> "nobody_asked_here", user_id |-> user_id,
          group_id |-> current_group_id, forward |-> <<>>]
    ELSE [kind |-> "forward", user_id |-> user_id, group_id |-> current_group_id,
          forward |-> FilteredMessages(messages, user_id, current_group_id)]

\* mutant of Query: the sorted and cut list is stored back in the index
QueryStoresResult ==
    /\ running = 0
    /\ \E user_id \in Users, current_group_id \in Groups :
          /\ qout' = QueryOutcome(user_id, current_group_id)
          /\ messages' = [u \in DOMAIN messages |->
                             IF u = user_id THEN GetAtMessages(messages, u)
                             ELSE messages[u]]
    /\ UNCHANGED <<message_recorder, file, lock, pc, frame, running, clock, nrec>>

Query ==
    /\ running = 0
    /\ \E user_id \in Users, current_group_id \in Groups :
          qout' = QueryOutcome(user_id, current_group_id)
    /\ UNCHANGED <<message_recorder, messages, file, lock, pc, frame, running,
                   clock, nrec>>

Next ==
    \/ Startup
    \/ Tick
    \/ Query
    \/ \E p \in Procs :
          \/ Receive(p)
          \/ Acquire(p)
          \/ Extract(p)
          \/ Reply(p)
          \/ Build(p)
          \/ RecordAt(p)
          \/ RecordReply(p)
          \/ RecordClean(p)
          \/ SaveMessages(p)
          \/ Resume(p)

Spec == Init /\ [][Next]_vars

\* the host process ends and is started again: __init__.py is loaded anew
\* (line 43: message_recorder = None), every object in memory and every
\* coroutine is gone, message_records.json stays; a process that ends while
\* the executor thread writes the file may leave it torn
Restart ==
    /\ message_recorder # None
    /\ running = 0
    /\ message_recorder' = None
    /\ messages' = EmptyIndex
    /\ lock' = 0
    /\ pc' = [p \in Procs |-> "idle"]
    /\ frame' = [p \in Procs |-> NoFrame]
    /\ \/ file' = file
       \/ /\ \E p \in Procs : pc[p] = "save" /\ frame[p].saved = "none"
          /\ file' = Corrupt
    /\ UNCHANGED <<running, clock, nrec>>
    /\ qout' = NoQuery

NextRestart ==
    \/ Next
    \/ Restart

\* the plugin over several lifetimes of the host process
RestartSpec == Init /\ [][NextRestart]_vars

\* mutant of Fault: the exception leaves record_message without the lock
\* being released
FaultKeepsLock(p) ==
    /\ pc[p] \in {"extract", "reply", "build", "rfu_at", "rfu_reply", "rfu_clean"}
    /\ Sched(p, pc[p])
    /\ pc' = [pc EXCEPT ![p] = "idle"]
    /\ running' = 0
    /\ frame' = [frame EXCEPT ![p] = NoFrame]
    /\ UNCHANGED <<message_recorder, messages, file, lock, clock, nrec>>
    /\ qout' = NoQuery

\* lines 106-108 and the exit of `async with` (line 52): a statement of
\* lines 54-104 raises, the exception is logged, the lock is released;
\* what was appended before the fault stays in the index
Fault(p) ==
    /\ pc[p] \in {"extract", "reply", "build", "rfu_at", "rfu_reply", "rfu_clean"}
    /\ Sched(p, pc[p])
    /\ pc' = [pc EXCEPT ![p] = "idle"]
    /\ lock' = 0
    /\ running' = 0
    /\ frame' = [frame EXCEPT ![p] = NoFrame]
    /\ UNCHANGED <<message_recorder, messages, file, clock, nrec>>
    /\ qout' = NoQuery

\* the step record_message of p takes next; where p stands decides which
\* one it is
Step(p) ==
    \/ Acquire(p)
    \/ Extract(p)
    \/ Reply(p)
    \/ Build(p)
    \/ RecordAt(p)
    \/ RecordReply(p)
    \/ RecordClean(p)
    \/ SaveMessages(p)
    \/ Resume(p)

\* the handlers with internal faults; the wall clock stays where it is
\* (which Events a prune keeps has no bearing on the lock)
NextFault ==
    \/ Startup
    \/ Query
    \/ \E p \in Procs :
          \/ Receive(p)
          \/ Step(p)
          \/ Fault(p)

\* the event loop runs every coroutine that is ready, and the executor
\* thread ends its write
Fairness == \A p \in Procs : WF_vars(Step(p))

\* the plugin with internal faults, under a fair event loop
FairSpec == Init /\ [][NextFault]_vars /\ Fairness

\* ------------------------------------------------------------------ claims
\* the retention window in seconds
Retention == StorageDays * SecondsPerDay

\* record_message of p has appended and pruned and now awaits its save
Recorded(p) == pc[p] = "save"

\* the recipients message_info is filed under: the mentioned identities
\* and the replied-to user
Named(f) ==
    Range(f.at_list) \cup (IF f.is_reply THEN {f.reply_user_id} ELSE {})

\* C1: once record_message has completed for a message of author U in group
\* G, the query of every mentioned identity in G holds an Event with
\* user_id = U and group_id = G, and its query in any other group does not
\* hold the message's Event.
C1_MentionQueryable ==
    \A p \in Procs :
        (Recorded(p) /\ frame[p].ev.group_id \in Groups) =>
            \A A \in Range(frame[p].at_list) :
                /\ \E msg \in Range(FilteredMessages(messages, A, frame[p].ev.group_id)) :
                       /\ msg.user_id = frame[p].ev.user_id
                       /\ msg.group_id = frame[p].ev.group_id
                /\ \A G2 \in Groups \ {frame[p].ev.group_id} :
                       frame[p].message_info \notin
                           Range(FilteredMessages(messages, A, G2))

\* the query as section 4.5 words it: filter, sort newest first, then cut
FilterSortTruncate(m, user_id, current_group_id) ==
    IF user_id \notin DOMAIN m THEN <<>>
    ELSE Truncate(SortedDesc(SelectSeq(m[user_id],
                      LAMBDA msg : Matches(msg, user_id, current_group_id))),
                  MaxMessages)

\* a query handler can run: no coroutine is in its synchronous code
Observable == running = 0

\* C2: whenever a query can run, its result equals filter-by-group-and-
\* recipient, then stable sort by timestamp descending, then truncation to
\* the maximum count.
C2_FilterThenTruncate ==
    Observable =>
        \A u \in Users, g \in Groups :
            FilteredMessages(messages, u, g) = FilterSortTruncate(messages, u, g)

\* the message has no mention segment and no reply metadata
NothingToRecord(ev) ==
    /\ ev.reply = None
    /\ \A i \in 1..Len(ev.message) : ev.message[i].type # "at"

\* C3: while record_message handles a message with no mention segment and
\* no reply metadata, the index is not changed and nothing is written to
\* the file.
C3_NoMentionNoEffect ==
    [][\A p \in Procs :
          (frame[p].ev # NoEvent /\ NothingToRecord(frame[p].ev)) =>
              /\ messages' = messages
              /\ file' = file
              /\ frame'[p].saved # "ok"]_vars

\* C4: after a reply by U2 in G1 to a message of U1 is recorded, the query
\* of U1 in G1 holds the reply Event and, after it, an Event for the
\* original message (author U1, empty mention set, is_reply false).
C4_ReplyAndOriginalQueryable ==
    \A p \in Procs :
        (Recorded(p) /\ frame[p].is_reply /\ frame[p].ev.group_id \in Groups) =>
            LET res == FilteredMessages(messages, frame[p].reply_user_id,
                                        frame[p].ev.group_id)
            IN \E i, j \in 1..Len(res) :
                  /\ i < j
                  /\ res[i] = frame[p].message_info
                  /\ res[j].user_id = frame[p].reply_user_id
                  /\ res[j].at_list = <<>>
                  /\ ~res[j].is_reply
                  /\ res[j].group_id = frame[p].ev.group_id

\* p has just returned from the prune of _record_for_users
Pruned(p) == pc[p] \in {"build", "save"} /\ frame[p].clean_now >= 0

\* C5: after a prune at time now no list holds an Event with
\* timestamp <= now - Retention, every Event with a later timestamp that
\* was in a list before the prune is still there in the same order, no
\* key maps to an empty list, and no query returns an expired Event.
C5_PruneExact ==
    \A p \in Procs :
        Pruned(p) =>
            LET limit == frame[p].clean_now - Retention
                pre == frame[p].pre_clean
            IN /\ \A u \in DOMAIN messages :
                     /\ messages[u] # <<>>
                     /\ \A i \in 1..Len(messages[u]) : messages[u][i].time > limit
               /\ DOMAIN messages \subseteq DOMAIN pre
               /\ \A u \in DOMAIN pre :
                     SelectSeq(pre[u], LAMBDA msg : msg.time > limit)
                        = (IF u \in DOMAIN messages THEN messages[u] ELSE <<>>)
               /\ \A u \in Users, g \in Groups :
                     \A msg \in Range(FilteredMessages(messages, u, g)) :
                         msg.time > limit

\* a prune removed an Event exactly at the boundary and with it the whole
\* key, and kept a younger Event of another recipient
C5_Witness ==
    \E p \in Procs :
        /\ Recorded(p)
        /\ \E u \in DOMAIN frame[p].pre_clean :
              /\ u \notin DOMAIN messages
              /\ \E i \in 1..Len(frame[p].pre_clean[u]) :
                    frame[p].pre_clean[u][i].time = frame[p].clean_now - Retention
        /\ DOMAIN messages # {}

\* C6 as claimed: whenever a query can run, it returns at most MaxMessages
\* entries with strictly descending timestamps.
C6_StrictlyDescending ==
    Observable =>
        \A u \in Users, g \in Groups :
            LET res == FilteredMessages(messages, u, g)
            IN /\ Len(res) <= MaxMessages
               /\ \A i \in 1..(Len(res) - 1) : res[i].time > res[i + 1].time

\* C6 as amended: a query returns at most MaxMessages entries and the
\* timestamps of consecutive entries never increase (equal timestamps are
\* allowed); the same holds of what get_at_messages returns.
C6_Descending ==
    \A u \in Users :
        /\ Len(GetAtMessages(messages, u)) <= MaxMessages
        /\ \A i \in 1..(Len(GetAtMessages(messages, u)) - 1) :
              GetAtMessages(messages, u)[i].time
                  >= GetAtMessages(messages, u)[i + 1].time
        /\ \A g \in Groups :
              LET res == FilteredMessages(messages, u, g)
              IN /\ Len(res) <= MaxMessages
                 /\ \A i \in 1..(Len(res) - 1) : res[i].time >= res[i + 1].time

\* a list longer than MaxMessages, stored oldest first, whose query is
\* full and spans two timestamps
C6_Witness ==
    \E u \in Users, g \in Groups :
        /\ u \in DOMAIN messages
        /\ Len(messages[u]) > MaxMessages
        /\ messages[u][1].time < messages[u][Len(messages[u])].time
        /\ Len(FilteredMessages(messages, u, g)) = MaxMessages
        /\ FilteredMessages(messages, u, g)[1].time
              > FilteredMessages(messages, u, g)[MaxMessages].time

\* C7: a query handler runs only when every record_message invocation
\* that holds the lock has either changed nothing yet (the index is the one
\* it started from) or has finished its appends and its prune (it awaits
\* the save).
C7_QuerySeesWholeWrites ==
    [][qout' # NoQuery =>
          \A p \in Procs :
              lock = p =>
                  \/ pc[p] = "extract"
                  \/ messages = frame[p].before
                  \/ Recorded(p)]_vars

\* a query has just run while an invocation that changed the index awaits
\* its save
C7_Witness ==
    /\ qout # NoQuery
    /\ \E p \in Procs : Recorded(p) /\ messages # frame[p].before

\* an invocation is between the acquisition of the lock and its release
Holding(p) == pc[p] \notin {"idle", "lock"}

\* the step keeps every Event whose timestamp is inside the retention
\* window at the time of the step
KeepsUnexpired ==
    \A u \in DOMAIN messages :
        \A i \in 1..Len(messages[u]) :
            messages[u][i].time > clock' - Retention =>
                /\ u \in DOMAIN messages'
                /\ messages[u][i] \in Range(messages'[u])

\* C8: at most one record_message invocation is between lock acquisition
\* and the end of its save, it is the holder of the lock, its Event is in
\* the list of every recipient it names once it awaits the save, and no
\* step of any invocation removes an unexpired Event from a list.
C8_SerializedNoLostUpdate ==
    /\ [](\A p, q \in Procs : (Holding(p) /\ Holding(q)) => p = q)
    /\ [](\A p \in Procs : Holding(p) => lock = p)
    /\ [](\A p \in Procs :
             Recorded(p) =>
                 \A u \in Named(frame[p]) :
                     /\ u \in DOMAIN messages
                     /\ frame[p].message_info \in Range(messages[u]))
    /\ [][KeepsUnexpired]_vars

\* the second of two overlapping invocations awaits its save, and the list
\* of a recipient holds the Events of both
C8_Witness ==
    /\ nrec = 2
    /\ \E p \in Procs :
          /\ Recorded(p)
          /\ \E u \in Named(frame[p]) :
                /\ u \in DOMAIN frame[p].before
                /\ Len(messages[u]) > Len(frame[p].before[u])
                /\ frame[p].before[u][1] \in Range(messages[u])
          /\ \E q \in Procs : q < p /\ pc[q] = "idle"

\* C9: a failing save changes nothing but the file: the invocation returns
\* (lock released, handler idle) with the index as it was, its Event still
\* filed under every recipient it names; the file is written only by the
\* save step of an invocation, and a save that succeeds stores a document
\* from which the whole current index is read back.
C9_SaveFailureSwallowed ==
    /\ [](\A p \in Procs :
             (Recorded(p) /\ frame[p].saved = "failed") =>
                 \A u \in Named(frame[p]) :
                     /\ u \in DOMAIN messages
                     /\ frame[p].message_info \in Range(messages[u]))
    /\ [][\A p \in Procs :
             /\ (frame[p].saved = "none" /\ frame'[p].saved = "failed") =>
                    (messages' = messages /\ pc' = pc /\ lock' = lock)
             /\ (frame[p].saved = "failed" /\ frame'[p] # frame[p]) =>
                    /\ messages' = messages
                    /\ pc'[p] = "idle"
                    /\ lock' = 0
                    /\ file' = file
             /\ (frame[p].saved = "none" /\ frame'[p].saved = "ok") =>
                    (LoadMessages(file') = messages /\ messages' = messages)]_vars
    /\ [][file' # file =>
             \E p \in Procs : Recorded(p) /\ frame[p].saved = "none"]_vars

\* the save of an earlier message failed (its Events were in memory and
\* not in the file when this invocation started), and the save of this
\* message has stored the index, which still holds the earlier Event
C9_Witness ==
    /\ file.kind = "doc"
    /\ \E p \in Procs :
          /\ Recorded(p)
          /\ frame[p].saved = "ok"
          /\ frame[p].before # EmptyIndex
          /\ frame[p].file_before.kind # "doc"
          /\ LoadMessages(file) = messages
          /\ \E u \in DOMAIN messages : Len(messages[u]) > 1
          /\ \E u \in DOMAIN frame[p].before :
                /\ u \in DOMAIN messages
                /\ frame[p].before[u][1] \in Range(messages[u])

\* C10: a query handler that runs while message_recorder is None tells
\* "not initialized", and that outcome is given in no other case: it is
\* neither of the two empty-result outcomes.
C10_NotInitializedDistinct ==
    qout # NoQuery =>
        /\ (message_recorder = None <=> qout.kind = "not_initialized")
        /\ (message_recorder = None =>
               qout.kind \notin {"nobody_asked", "nobody_asked_here", "forward"})

\* a query was answered before the startup hook ran
C10_Witness ==
    /\ message_recorder = None
    /\ qout.kind = "not_initialized"

\* two indexes have the same recipients and, under each recipient, the same
\* Events field by field in the same order
SameIndex(l, m) ==
    /\ DOMAIN l = DOMAIN m
    /\ \A u \in DOMAIN m :
          /\ Len(l[u]) = Len(m[u])
          /\ \A i \in 1..Len(m[u]) :
                /\ l[u][i].time = m[u][i].time
                /\ l[u][i].user_id = m[u][i].user_id
                /\ l[u][i].raw_message = m[u][i].raw_message
                /\ l[u][i].at_list = m[u][i].at_list
                /\ l[u][i].is_reply = m[u][i].is_reply
                /\ l[u][i].reply_user_id = m[u][i].reply_user_id
                /\ l[u][i].group_id = m[u][i].group_id

\* the recorder is being constructed by the startup hook
Starting == message_recorder = None /\ message_recorder' # None

\* C11: the load of the startup hook always yields a recorder; it yields
\* the empty index when the file is missing or unreadable; a successful
\* save stores a document whose load is the index that was saved (same
\* recipients, same field values, None staying None, same order), and the
\* load after a restart reads exactly what the stored document holds.
C11_LoadRoundTrip ==
    /\ [](SameIndex(LoadMessages(Document(messages)), messages))
    /\ [][Starting =>
             /\ message_recorder' = "ready"
             /\ file' = file
             /\ (file.kind # "doc" => messages' = EmptyIndex)
             /\ (file.kind = "doc" => Document(messages') = file)]_vars
    /\ [][\A p \in Procs :
             (frame[p].saved = "none" /\ frame'[p].saved = "ok") =>
                 /\ file'.kind = "doc"
                 /\ SameIndex(LoadMessages(file'), messages)]_vars

\* the process has been started again and has not loaded yet; the stored
\* document holds a list of two Events, with a null reply_user_id and a
\* null group_id among its fields
C11_Witness ==
    /\ message_recorder = None
    /\ file.kind = "doc"
    /\ \E u \in DOMAIN file.data :
          /\ Len(file.data[u]) > 1
          /\ \E i \in 1..Len(file.data[u]) : file.data[u][i].reply_user_id = "null"
          /\ \E i \in 1..Len(file.data[u]) : file.data[u][i].group_id = "null"

\* C12: once record_message has done its appends for a reply message, the
\* synthesized original-message Event is in the list of the replied-to user
\* and in no other list, and the current-message Event is in the list of
\* every mentioned identity and of the replied-to user and in no other list.
C12_ReplyFiledUnderRepliedTo ==
    \A p \in Procs :
        (Recorded(p) /\ frame[p].is_reply) =>
            /\ frame[p].reply_user_id \in DOMAIN messages
            /\ frame[p].reply_message_info
                   \in Range(messages[frame[p].reply_user_id])
            /\ \A u \in DOMAIN messages \ {frame[p].reply_user_id} :
                   frame[p].reply_message_info \notin Range(messages[u])
            /\ \A u \in Named(frame[p]) :
                   /\ u \in DOMAIN messages
                   /\ frame[p].message_info \in Range(messages[u])
            /\ \A u \in DOMAIN messages \ Named(frame[p]) :
                   frame[p].message_info \notin Range(messages[u])

\* the list s is the beginning of the list t
IsPrefix(s, t) == Len(s) <= Len(t) /\ SubSeq(t, 1, Len(s)) = s

\* the list of recipient u in index m, empty without an entry
ListOf(m, u) == IF u \in DOMAIN m THEN m[u] ELSE <<>>

\* the step is the prune of an invocation (line 117)
Pruning == \E p \in Procs : pc[p] = "rfu_clean" /\ pc'[p] # "rfu_clean"

\* C13: every step of the recorder and of the query handler leaves each
\* list as the beginning of what it is afterwards (its Events with the same
\* fields in the same order, new ones only appended), except a prune,
\* which leaves exactly the Events with timestamp > now - Retention, in
\* their order.
C13_EventsStayUntilExpiry ==
    [][\A u \in DOMAIN messages :
          \/ IsPrefix(messages[u], ListOf(messages', u))
          \/ /\ Pruning
             /\ ListOf(messages', u) =
                    SelectSeq(messages[u],
                              LAMBDA msg : msg.time > clock - Retention)]_vars

\* an Event recorded in an earlier second is still the first of its list,
\* unchanged, after a later invocation appended behind it and pruned, and
\* after a query
C13_Witness ==
    /\ qout # NoQuery
    /\ \E p \in Procs :
          /\ Recorded(p)
          /\ \E u \in DOMAIN frame[p].before :
                /\ u \in DOMAIN messages
                /\ IsPrefix(frame[p].before[u], messages[u])
                /\ Len(messages[u]) > Len(frame[p].before[u])
                /\ frame[p].clean_now > frame[p].before[u][1].time

\* C14: an invocation that holds the lock eventually releases it (after
\* the early return, the normal end, a fault or a failing save), an
\* invocation that waits for the lock eventually gets it, and the save
\* step runs with the lock held by its own invocation and does not touch
\* the lock.
C14_LockAlwaysReleased ==
    /\ \A p \in Procs : (lock = p) ~> (lock = 0)
    /\ \A p \in Procs : Holding(p) ~> (pc[p] = "idle")
    /\ \A p \in Procs : (pc[p] = "lock") ~> (lock = p)
    /\ [][\A p \in Procs :
             (frame[p].saved = "none" /\ frame'[p].saved # "none") =>
                 (lock = p /\ lock' = lock /\ pc' = pc)]_vars

\* the first invocation ended without a successful save, by a fault or a
\* failing save after it had appended, and the invocation that waited for
\* the lock now holds it
C14_Witness ==
    /\ nrec = 2
    /\ messages # EmptyIndex
    /\ file.kind # "doc"
    /\ pc[1] = "idle"
    /\ pc[2] = "extract"
    /\ lock = 2

\* the Events of list s that a prune at time now keeps
Unexpired(s, now) == SelectSeq(s, LAMBDA msg : msg.time > now - Retention)

\* the message is a mention with an empty target followed by a mention of A
EmptyThenMention(ev, A) == ev.message = <<At(""), At(A)>> /\ ev.reply = None

\* C15: the empty identity never becomes a recipient; an invocation for a
\* message made of a mention with an empty target and a mention of A has
\* the mention set {A}, reaches the prune and the save, has then appended
\* exactly one Event, with that mention set, to the list of A, and has
\* appended nothing to any other list.
C15_EmptyMentionSkipped ==
    /\ "" \notin DOMAIN messages
    /\ \A p \in Procs, A \in Users :
          (EmptyThenMention(frame[p].ev, A) /\ pc[p] \notin {"reply", "build"}) =>
              /\ frame[p].at_list = <<A>>
              /\ frame[p].message_info.at_list = <<A>>
              /\ Recorded(p) =>
                    /\ frame[p].clean_now >= 0
                    /\ ListOf(messages, A) =
                           Unexpired(ListOf(frame[p].before, A), frame[p].clean_now)
                               \o <<frame[p].message_info>>
                    /\ \A u \in (DOMAIN messages \cup DOMAIN frame[p].before) \ {A} :
                           ListOf(messages, u) =
                               Unexpired(ListOf(frame[p].before, u),
                                         frame[p].clean_now)

\* such a message has been recorded behind an earlier Event of A's list and
\* saved
C15_Witness ==
    \E p \in Procs :
        /\ EmptyThenMention(frame[p].ev, "a")
        /\ Recorded(p)
        /\ frame[p].saved = "ok"
        /\ Len(ListOf(messages, "a")) = 2
        /\ DOMAIN messages = {"a"}

\* no record_message invocation is between lock acquisition and release
NoneInProgress == \A p \in Procs : ~Holding(p)

\* the stored document reads back as the in-memory index
InSync == file.kind = "doc" /\ SameIndex(LoadMessages(file), messages)

\* C16: when the save of an invocation has succeeded the stored document
\* reads back as the in-memory index; from then on every step that ends
\* with no invocation in progress (the return of that invocation, a query,
\* the passing of time, a handler that only waits) keeps them equal; while
\* an invocation awaits its save no step changes the index, and a
\* successful save writes the index as it is at that moment.
C16_PersistedEqualsMemory ==
    /\ [](\A p \in Procs : frame[p].saved = "ok" => InSync)
    /\ [][(InSync /\ NoneInProgress') => InSync']_vars
    /\ [][(\E p \in Procs : pc[p] = "save") => messages' = messages]_vars
    /\ [][\A p \in Procs :
             (frame[p].saved = "none" /\ frame'[p].saved = "ok") =>
                 (file' = Document(messages) /\ messages' = messages)]_vars

\* two messages have been recorded and saved, a query has just run, no
\* invocation is in progress, and the document still reads back as the
\* index, which holds a list of two Events
C16_Witness ==
    /\ nrec = 2
    /\ NoneInProgress
    /\ qout # NoQuery
    /\ InSync
    /\ \E u \in DOMAIN messages : Len(messages[u]) > 1

\* how many entries of list s equal x
Count(s, x) == Cardinality({i \in 1..Len(s) : s[i] = x})

\* C17: once record_message has done its appends for a message, every
\* list is at most one entry longer than what the prune kept of it from
\* before the message, and a query holds the Event of the message at most
\* once more than the list held an equal Event before.
C17_OneEntryPerRecipient ==
    \A p \in Procs :
        Recorded(p) =>
            \A u \in Users :
                /\ Len(ListOf(messages, u)) <=
                       Len(Unexpired(ListOf(frame[p].before, u),
                                     frame[p].clean_now)) + 1
                /\ \A g \in Groups :
                       Count(FilteredMessages(messages, u, g), frame[p].message_info)
                           <= Count(ListOf(frame[p].before, u),
                                    frame[p].message_info) + 1

\* the Event names R: R is mentioned, or the Event is a reply to R
NamesRecipient(msg, R) ==
    \/ R \in Range(msg.at_list)
    \/ (msg.is_reply /\ msg.reply_user_id = R)

\* C18: every Event in the list of a recipient R names R, so for R's list
\* the filter of the query is the comparison of the group alone.
C18_StoredEventsNameRecipient ==
    \A R \in DOMAIN messages :
        /\ \A i \in 1..Len(messages[R]) :
              /\ NamesRecipient(messages[R][i], R)
              /\ \A g \in Groups :
                    Matches(messages[R][i], R, g) <=> messages[R][i].group_id = g
        /\ \A g \in Groups :
              FilteredMessages(messages, R, g) =
                  SelectSeq(GetAtMessages(messages, R),
                            LAMBDA msg : msg.group_id = g)

\* the list of a recipient holds an Event filed for a reply alone and an
\* Event filed for a mention alone, from two groups
C18_Witness ==
    \E R \in DOMAIN messages :
        /\ \E i \in 1..Len(messages[R]) :
              messages[R][i].at_list = <<>> /\ messages[R][i].is_reply
        /\ \E i \in 1..Len(messages[R]) :
              R \in Range(messages[R][i].at_list) /\ ~messages[R][i].is_reply
        /\ \E i, j \in 1..Len(messages[R]) :
              messages[R][i].group_id # messages[R][j].group_id

\* out is what the query of out.user_id in out.group_id is answered over
\* the recorder rec and the index m
Answers(out, rec, m) ==
    LET got == GetAtMessages(m, out.user_id)
        shown == FilteredMessages(m, out.user_id, out.group_id)
    IN /\ (out.kind = "not_initialized") <=> (rec = None)
       /\ (out.kind = "nobody_asked") <=> (rec # None /\ got = <<>>)
       /\ (out.kind = "nobody_asked_here") <=>
              (rec # None /\ got # <<>> /\ shown = <<>>)
       /\ (out.kind = "forward") <=> (rec # None /\ shown # <<>>)
       /\ out.forward = (IF rec # None THEN shown ELSE <<>>)

\* C19: a step of the query handler changes neither the index nor the
\* file nor the recorder nor the state of any record_message invocation
\* (no prune, no reordering, no cut of a stored list, no save), and the
\* answer it gave is the answer of the same query over the state it
\* leaves behind.
C19_QueryReadOnly ==
    [][qout' # NoQuery =>
          /\ messages' = messages
          /\ file' = file
          /\ message_recorder' = message_recorder
          /\ pc' = pc
          /\ frame' = frame
          /\ lock' = lock
          /\ Answers(qout', message_recorder', messages')]_vars

\* a query has just returned a full result, newest first, from a stored
\* list that is longer than the result and is still in insertion order
C19_Witness ==
    /\ qout.kind = "forward"
    /\ Len(qout.forward) = MaxMessages
    /\ Len(messages[qout.user_id]) > MaxMessages
    /\ messages[qout.user_id] # SortedDesc(messages[qout.user_id])

====
